---- MODULE Spec2Model ----
(***************************************************************************)
(* A model of mm1-level-parser: the Level codec (src/src/level.rs), the    *)
(* Object and SoundEffect records (src/src/objects.rs,                     *)
(* src/src/sound_effects.rs), the Thumbnail codec (src/src/thumbnail.rs)   *)
(* and the Course aggregate (src/src/course.rs).                           *)
(*                                                                         *)
(* Representation of the program's values:                                 *)
(*  - a byte buffer ([u8; N], Vec<u8>, &[u8]) is a record                  *)
(*    [len |-> n, nz |-> f] where f maps exactly the offsets that hold a   *)
(*    non-zero byte to that byte; every other offset below len holds 0.    *)
(*    The representation is canonical, so = on buffers is byte equality.   *)
(*  - TLC's integers are 32-bit signed, so a u32 is a pair <<lo, hi>> of   *)
(*    16-bit limbs (value lo + 65536 * hi) and a u64 is four limbs, least  *)
(*    significant first.  u8, u16, i8, i16 are plain integers.             *)
(*  - a String is the sequence of its UTF-8 bytes.                         *)
(***************************************************************************)
EXTENDS Integers, Sequences, FiniteSets, TLC

VARIABLES
    level,          \* the Level value handed to Level::to_bytes
    packed,         \* the result of Level::to_bytes(level)
    src,            \* the byte buffer handed to Level::from_bytes
    unpacked,       \* the result of Level::from_bytes(src)
    relevel,        \* the Level a caller encodes again after decoding it
    repacked,       \* the result of Level::to_bytes(relevel)
    thumbnail,      \* the Thumbnail handed to Thumbnail::to_bytes
    tnl_packed,     \* the result of Thumbnail::to_bytes(thumbnail)
    tnl_src,        \* the byte buffer handed to Thumbnail::from_bytes
    tnl_unpacked,   \* the result of Thumbnail::from_bytes(tnl_src)
    entries,        \* Course::from_tar: the archive entries read so far
    level_buf,      \* from_tar's local `level` (an Option); from_bytes's argument
    sub_level_buf,  \* from_tar's local `sub_level`; from_bytes's argument
    preview_buf,    \* from_tar's local `level_preview`; from_bytes's argument
    thumbnail_buf,  \* from_tar's local `level_thumbnail`; from_bytes's argument
    course_pc,      \* "idle", "tar_loop" (in from_tar's loop), "tar_done", "bytes_done"
    course          \* the result of Course::from_tar / Course::from_bytes

level_vars == <<level, packed, src, unpacked, relevel, repacked>>
tnl_vars == <<thumbnail, tnl_packed, tnl_src, tnl_unpacked>>
course_vars == <<entries, level_buf, sub_level_buf, preview_buf, thumbnail_buf,
                 course_pc, course>>
vars == <<level_vars, tnl_vars, course_vars>>

(***************************************************************************)
(* Results.  A Rust panic (slice index out of range, unwrap on None) is    *)
(* not a value of the Result type: it aborts the call.                     *)
(***************************************************************************)
None == [tag |-> "None"]
Some(v) == [tag |-> "Some", value |-> v]
Ok(v) == [tag |-> "Ok", value |-> v]
Err(e) == [tag |-> "Err", error |-> e]
Panic == [tag |-> "Panic"]
NotCalled == [tag |-> "NotCalled"]

FileTooLarge == [kind |-> "FileTooLarge"]
InvalidData == [kind |-> "InvalidData"]
MissingCourseData(member) == [kind |-> "MissingCourseData", member |-> member]

(***************************************************************************)
(* Fixed-width integers.                                                   *)
(***************************************************************************)
Min(a, b) == IF a < b THEN a ELSE b
Max(a, b) == IF a < b THEN b ELSE a

\* bitwise exclusive or, bit by bit and then by table for bytes and u16
RECURSIVE XorBits(_, _)
XorBits(a, b) ==
    IF a = 0 THEN b
    ELSE IF b = 0 THEN a
    ELSE ((a + b) % 2) + 2 * XorBits(a \div 2, b \div 2)
XorTable == [a \in 0..255 |-> [b \in 0..255 |-> XorBits(a, b)]]
Xor(a, b) ==
    XorTable[a % 256][b % 256] + 256 * XorTable[a \div 256][b \div 256]

\* u16 <-> two big-endian bytes
U16ToBe(w) == <<(w \div 256) % 256, w % 256>>
U16FromBe(b) == b[1] * 256 + b[2]

\* u32 = <<lo, hi>> ; u32::to_be_bytes / u32::from_be_bytes
U32(lo, hi) == <<lo, hi>>
U32OfNat(n) == <<n % 65536, (n \div 65536) % 65536>>
U32ToBe(x) == U16ToBe(x[2]) \o U16ToBe(x[1])
U32FromBe(b) == <<b[3] * 256 + b[4], b[1] * 256 + b[2]>>

\* u64 = <<w0, w1, w2, w3>>, w0 least significant ; u64::to_be_bytes / from_be_bytes
U64ToBe(x) == U16ToBe(x[4]) \o U16ToBe(x[3]) \o U16ToBe(x[2]) \o U16ToBe(x[1])
U64FromBe(b) ==
    <<b[7] * 256 + b[8], b[5] * 256 + b[6], b[3] * 256 + b[4], b[1] * 256 + b[2]>>

\* two's complement: iN as uN, and uN reinterpreted as iN
I8ToByte(v) == v % 256
I8FromByte(b) == IF b >= 128 THEN b - 256 ELSE b
I16ToBe(v) == U16ToBe(v % 65536)
I16FromBe(b) == IF U16FromBe(b) >= 32768 THEN U16FromBe(b) - 65536 ELSE U16FromBe(b)

(***************************************************************************)
(* CRC-32 (crc32fast::hash, crc32fast::Hasher): the IEEE CRC-32, reflected *)
(* polynomial 0xEDB88320, initial value and final xor 0xFFFFFFFF.  The     *)
(* register is a u32 as two limbs.                                         *)
(***************************************************************************)
Xor32(a, b) == <<Xor(a[1], b[1]), Xor(a[2], b[2])>>
Shr1(c) == <<(c[1] \div 2) + (c[2] % 2) * 32768, c[2] \div 2>>
Shr8(c) == <<(c[1] \div 256) + (c[2] % 256) * 256, c[2] \div 256>>
CrcPoly == <<33568, 60856>>      \* 0xEDB88320
CrcOnes == <<65535, 65535>>      \* 0xFFFFFFFF

RECURSIVE CrcBits(_, _)
CrcBits(c, k) ==
    IF k = 0 THEN c
    ELSE CrcBits(IF c[1] % 2 = 1 THEN Xor32(CrcPoly, Shr1(c)) ELSE Shr1(c), k - 1)

CrcTable == [n \in 0..255 |-> CrcBits(<<n, 0>>, 8)]

\* one byte through the register
CrcStep(c, b) == Xor32(CrcTable[Xor(c[1] % 256, b)], Shr8(c))

(* A run of zero bytes.  CrcStep(c, 0) is linear over GF(2) in c, so the    *)
(* effect of 2^k zero bytes is a linear map of the register, kept as the   *)
(* images of the register's eight nibbles: m[j][v] is the image of the     *)
(* register whose j-th nibble is v and whose other bits are zero.  CrcZ[k+1] *)
(* is the map of 2^k zero bytes.                                           *)
CrcNibble(j, v) ==
    IF j < 4 THEN <<v * (16 ^ j), 0>> ELSE <<0, v * (16 ^ (j - 4))>>
CrcApplyLimb(m, w, j) ==
    Xor32(Xor32(m[j][w % 16], m[j + 1][(w \div 16) % 16]),
          Xor32(m[j + 2][(w \div 256) % 16], m[j + 3][w \div 4096]))
CrcApply(m, c) == Xor32(CrcApplyLimb(m, c[1], 0), CrcApplyLimb(m, c[2], 4))
CrcSq(m) == [j \in 0..7 |-> [v \in 0..15 |-> CrcApply(m, m[j][v])]]
CrcZ0 == [j \in 0..7 |-> [v \in 0..15 |-> CrcStep(CrcNibble(j, v), 0)]]
CrcZ1 == CrcSq(CrcZ0)
CrcZ2 == CrcSq(CrcZ1)
CrcZ3 == CrcSq(CrcZ2)
CrcZ4 == CrcSq(CrcZ3)
CrcZ5 == CrcSq(CrcZ4)
CrcZ6 == CrcSq(CrcZ5)
CrcZ7 == CrcSq(CrcZ6)
CrcZ8 == CrcSq(CrcZ7)
CrcZ9 == CrcSq(CrcZ8)
CrcZ10 == CrcSq(CrcZ9)
CrcZ11 == CrcSq(CrcZ10)
CrcZ12 == CrcSq(CrcZ11)
CrcZ13 == CrcSq(CrcZ12)
CrcZ14 == CrcSq(CrcZ13)
CrcZ15 == CrcSq(CrcZ14)
CrcZ16 == CrcSq(CrcZ15)
CrcZ17 == CrcSq(CrcZ16)
CrcZ == <<CrcZ0, CrcZ1, CrcZ2, CrcZ3, CrcZ4, CrcZ5, CrcZ6, CrcZ7, CrcZ8, CrcZ9,
          CrcZ10, CrcZ11, CrcZ12, CrcZ13, CrcZ14, CrcZ15, CrcZ16, CrcZ17>>

RECURSIVE CrcZeroRun(_, _, _)
CrcZeroRun(c, n, k) ==
    IF n = 0 \/ c = <<0, 0>> THEN c
    ELSE CrcZeroRun(IF n % 2 = 1 THEN CrcApply(CrcZ[k + 1], c) ELSE c, n \div 2, k + 1)

(* The register after the bytes at offsets lo..hi-1 of a buffer, by halving *)
(* the range; nz is the buffer's non-zero bytes restricted to that range.  *)
(* The test of left only makes the first half be evaluated before the      *)
(* second is entered: a limb is never negative.                            *)
RECURSIVE CrcRange(_, _, _, _, _)
CrcRange(c, b, nz, lo, hi) ==
    IF hi <= lo THEN c
    ELSE IF nz = {} THEN CrcZeroRun(c, hi - lo, 0)
    ELSE IF hi - lo = 1 THEN CrcStep(c, b.nz[lo])
    ELSE LET mid == (lo + hi) \div 2
             left == CrcRange(c, b, {o \in nz : o < mid}, lo, mid)
         IN  IF left[1] < 0 THEN left
             ELSE CrcRange(left, b, {o \in nz : o >= mid}, mid, hi)

\* crc32fast::hash(&bytes[lo..hi])
Crc32(b, lo, hi) ==
    Xor32(CrcRange(CrcOnes, b, {o \in DOMAIN b.nz : o >= lo /\ o < hi}, lo, hi), CrcOnes)

(***************************************************************************)
(* Byte buffers.                                                           *)
(***************************************************************************)
EmptyMap == [o \in {} |-> 0]
ZeroBuf(n) == [len |-> n, nz |-> EmptyMap]
ByteAt(b, o) == IF o \in DOMAIN b.nz THEN b.nz[o] ELSE 0
\* &b[lo..hi] as a sequence (short slices)
Slice(b, lo, hi) == [i \in 1..(hi - lo) |-> ByteAt(b, lo + i - 1)]
\* b[lo..hi].to_vec()
SubBuf(b, lo, hi) ==
    [len |-> hi - lo,
     nz |-> [o \in {p - lo : p \in {q \in DOMAIN b.nz : q >= lo /\ q < hi}} |-> b.nz[o + lo]]]
\* the buffer with the bytes of sequence data stored at pos.. (must fit)
WriteAt(b, pos, data) ==
    LET n == Len(data)
        keep == {o \in DOMAIN b.nz : o < pos \/ o >= pos + n}
        new == {pos + i - 1 : i \in {j \in 1..n : data[j] # 0}}
    IN  [len |-> b.len,
         nz |-> [o \in keep \cup new |-> IF o \in new THEN data[o - pos + 1] ELSE b.nz[o]]]
\* a Vec<u8> from a sequence of bytes
BufOfSeq(data) == WriteAt(ZeroBuf(Len(data)), 0, data)
\* a.extend_from_slice(&b)
Extend(a, b) ==
    [len |-> a.len + b.len,
     nz |-> [o \in DOMAIN a.nz \cup {p + a.len : p \in DOMAIN b.nz} |->
                IF o < a.len THEN a.nz[o] ELSE b.nz[o - a.len]]]
\* v.resize(n, 0)
Resize(b, n) ==
    IF n >= b.len THEN [len |-> n, nz |-> b.nz]
    ELSE [len |-> n, nz |-> [o \in {p \in DOMAIN b.nz : p < n} |-> b.nz[o]]]

(* std::io::Cursor<&mut [u8]>: write_all fails (ErrorKind::WriteZero) when  *)
(* the data does not fit between the position and the end of the slice;    *)
(* every caller turns the failure into an early return, so a failed cursor *)
(* stays failed.  seek(SeekFrom::Start(n)) always succeeds.                *)
Cursor(b) == [bytes |-> b, pos |-> 0, failed |-> FALSE]
\* a seek that stops one byte short of the offset
SeekShort(c, n) == IF c.failed THEN c ELSE [c EXCEPT !.pos = n - 1]
Seek(c, n) == IF c.failed THEN c ELSE [c EXCEPT !.pos = n]
WriteAll(c, data) ==
    IF c.failed THEN c
    ELSE IF c.pos + Len(data) > c.bytes.len THEN [c EXCEPT !.failed = TRUE]
    ELSE [bytes |-> WriteAt(c.bytes, c.pos, data), pos |-> c.pos + Len(data),
          failed |-> FALSE]

\* the buffer with the records recs (byte sequences of `size` bytes each)
\* stored back to back from pos (must fit): one write_all per record
WriteRecords(b, pos, size, recs) ==
    LET n == Len(recs)
        keep == {o \in DOMAIN b.nz : o < pos \/ o >= pos + n * size}
        new == UNION {{pos + (i - 1) * size + j - 1 :
                          j \in {k \in 1..size : recs[i][k] # 0}} : i \in 1..n}
    IN  [len |-> b.len,
         nz |-> [o \in keep \cup new |->
                    IF o \in new THEN recs[((o - pos) \div size) + 1][((o - pos) % size) + 1]
                    ELSE b.nz[o]]]
\* for r in recs { cursor.write_all(&r)? }
WriteAllRecords(c, size, recs) ==
    IF c.failed THEN c
    ELSE IF Len(recs) = 0 THEN c
    ELSE IF c.pos + Len(recs) * size > c.bytes.len THEN [c EXCEPT !.failed = TRUE]
    ELSE [bytes |-> WriteRecords(c.bytes, c.pos, size, recs),
          pos |-> c.pos + Len(recs) * size, failed |-> FALSE]

Zeros(n) == [i \in 1..n |-> 0]

(***************************************************************************)
(* Object (src/src/objects.rs): 32 bytes, big-endian fields at fixed byte  *)
(* positions.                                                              *)
(***************************************************************************)
OBJECT_SIZE == 32

ObjectPack(o) ==
    U32ToBe(o.x_position) \o U32ToBe(o.z_position) \o I16ToBe(o.y_position)
    \o <<I8ToByte(o.width), I8ToByte(o.height)>>
    \o U32ToBe(o.object_flags) \o U32ToBe(o.child_object_flags)
    \o U32ToBe(o.extended_object_data)
    \o <<I8ToByte(o.object_type), I8ToByte(o.child_object_type)>>
    \o I16ToBe(o.link_id) \o I16ToBe(o.effect_index)
    \o <<I8ToByte(o.transformation_id), I8ToByte(o.child_object_transformation_id)>>

\* b is a sequence of 32 bytes; byte offset k is b[k + 1]
ObjectUnpack(b) ==
    [x_position |-> U32FromBe(SubSeq(b, 1, 4)),
     z_position |-> U32FromBe(SubSeq(b, 5, 8)),
     y_position |-> I16FromBe(SubSeq(b, 9, 10)),
     width |-> I8FromByte(b[11]),
     height |-> I8FromByte(b[12]),
     object_flags |-> U32FromBe(SubSeq(b, 13, 16)),
     child_object_flags |-> U32FromBe(SubSeq(b, 17, 20)),
     extended_object_data |-> U32FromBe(SubSeq(b, 21, 24)),
     object_type |-> I8FromByte(b[25]),
     child_object_type |-> I8FromByte(b[26]),
     link_id |-> I16FromBe(SubSeq(b, 27, 28)),
     effect_index |-> I16FromBe(SubSeq(b, 29, 30)),
     transformation_id |-> I8FromByte(b[31]),
     child_object_transformation_id |-> I8FromByte(b[32])]

(***************************************************************************)
(* SoundEffect (src/src/sound_effects.rs): size_bytes = 8 with the single  *)
(* field `unknown: u32` in the first four bytes (msb0 numbering); the      *)
(* other four bytes belong to no field: pack writes them as zero and       *)
(* unpack does not read them.                                              *)
(***************************************************************************)
SOUND_EFFECT_SIZE == 8

SoundEffectPack(e) == U32ToBe(e.unknown) \o <<0, 0, 0, 0>>
SoundEffectUnpack(b) == [unknown |-> U32FromBe(SubSeq(b, 1, 4))]

(***************************************************************************)
(* GameMode, CourseTheme, AutoScroll (src/src/level.rs).                   *)
(***************************************************************************)
GameModes == {"SuperMarioBros", "Mario3", "MarioWorld", "NewSuperMarioBrosU"}
CourseThemes == <<"Overworld", "Underground", "Castle", "Airship", "Water", "GhostHouse">>
AutoScrolls == <<"None", "Slow", "Medium", "Fast">>

\* ASCII: 'M' = 77, '1' = 49, '3' = 51, 'W' = 87, 'U' = 85
GameModePack(g) ==
    CASE g = "SuperMarioBros" -> <<77, 49>>
      [] g = "Mario3" -> <<77, 51>>
      [] g = "MarioWorld" -> <<77, 87>>
      [] g = "NewSuperMarioBrosU" -> <<87, 85>>

\* a decoder that falls back to the first variant for an unknown tag
GameModeUnpackDefaulting(b) ==
    CASE b = <<77, 49>> -> Ok("SuperMarioBros")
      [] b = <<77, 51>> -> Ok("Mario3")
      [] b = <<77, 87>> -> Ok("MarioWorld")
      [] b = <<87, 85>> -> Ok("NewSuperMarioBrosU")
      [] OTHER -> Ok("SuperMarioBros")

GameModeUnpack(b) ==
    CASE b = <<77, 49>> -> Ok("SuperMarioBros")
      [] b = <<77, 51>> -> Ok("Mario3")
      [] b = <<77, 87>> -> Ok("MarioWorld")
      [] b = <<87, 85>> -> Ok("NewSuperMarioBrosU")
      [] OTHER -> Err("InvalidValue")

\* `self.course_theme as u8`, CourseTheme::try_from_primitive
CourseThemeToU8(t) == CHOOSE n \in 0..5 : CourseThemes[n + 1] = t
CourseThemeTryFrom(n) == IF n <= 5 THEN Ok(CourseThemes[n + 1]) ELSE Err("InvalidValue")
\* `self.auto_scroll as u8`, AutoScroll::try_from_primitive
AutoScrollToU8(a) == CHOOSE n \in 0..3 : AutoScrolls[n + 1] = a
AutoScrollTryFrom(n) == IF n <= 3 THEN Ok(AutoScrolls[n + 1]) ELSE Err("InvalidValue")

(***************************************************************************)
(* chrono: NaiveDate::from_ymd_opt and NaiveTime::from_hms_opt on the      *)
(* values level.rs passes (a u16 year, u8 month, day, hour, minute).       *)
(***************************************************************************)
IsLeapYear(y) == (y % 4 = 0 /\ y % 100 # 0) \/ y % 400 = 0
DaysInMonth(y, m) ==
    IF m = 2 THEN (IF IsLeapYear(y) THEN 29 ELSE 28)
    ELSE IF m \in {4, 6, 9, 11} THEN 30 ELSE 31
FromYmdOpt(y, m, d) ==
    IF m >= 1 /\ m <= 12 /\ d >= 1 /\ d <= DaysInMonth(y, m)
    THEN Some([year |-> y, month |-> m, day |-> d]) ELSE None
FromHmsOpt(h, mi, s) ==
    IF h < 24 /\ mi < 60 /\ s < 60
    THEN Some([hour |-> h, minute |-> mi, second |-> s]) ELSE None
\* NaiveDateTime::new(date, time)
NaiveDateTime(d, t) ==
    [year |-> d.year, month |-> d.month, day |-> d.day,
     hour |-> t.hour, minute |-> t.minute, second |-> t.second]

(***************************************************************************)
(* The ucs2 crate, as level.rs calls it, and String::from_utf8.            *)
(***************************************************************************)
\* the UTF-8 bytes of the character with code point cp (a Rust char in a String)
Utf8OfChar(cp) ==
    IF cp < 128 THEN <<cp>>
    ELSE IF cp < 2048 THEN <<192 + (cp \div 64), 128 + (cp % 64)>>
    ELSE IF cp < 65536
         THEN <<224 + (cp \div 4096), 128 + ((cp \div 64) % 64), 128 + (cp % 64)>>
    ELSE <<240 + (cp \div 262144), 128 + ((cp \div 4096) % 64),
           128 + ((cp \div 64) % 64), 128 + (cp % 64)>>
RECURSIVE Utf8OfChars(_)
Utf8OfChars(cps) ==
    IF cps = <<>> THEN <<>> ELSE Utf8OfChar(Head(cps)) \o Utf8OfChars(Tail(cps))

(* ucs2::encode(input, buffer): walks the UTF-8 bytes; a 1-, 2- or 3-byte   *)
(* sequence gives one u16, a 4-byte sequence is Error::MultiByte, and a    *)
(* character that does not fit the buffer is Error::BufferOverflow.        *)
(* out is the sequence of units written so far, cap the buffer's length.   *)
RECURSIVE Ucs2EncodeFrom(_, _, _, _)
Ucs2EncodeFrom(bytes, i, out, cap) ==
    IF i > Len(bytes) THEN Ok(out)
    ELSE LET b == bytes[i]
             Put(ch, next) ==
                 IF Len(out) >= cap THEN Err("BufferOverflow")
                 ELSE Ucs2EncodeFrom(bytes, next, Append(out, ch), cap)
         IN  CASE b < 128 -> Put(b, i + 1)
               [] b \div 32 = 6 -> Put((b % 32) * 64 + (bytes[i + 1] % 64), i + 2)
               [] b \div 16 = 14 ->
                      Put((b % 16) * 4096 + (bytes[i + 1] % 64) * 64 + (bytes[i + 2] % 64),
                          i + 3)
               [] b \div 16 = 15 -> Err("MultiByte")
Ucs2Encode(bytes, cap) == Ucs2EncodeFrom(bytes, 1, <<>>, cap)

(* ucs2::decode(input, output): every u16 of the input, zero included, is   *)
(* written as 1, 2 or 3 UTF-8 bytes; the result is the bytes written.      *)
Ucs2DecodeUnit(ch) ==
    IF ch < 128 THEN <<ch>>
    ELSE IF ch < 2048 THEN <<192 + (ch \div 64), 128 + (ch % 64)>>
    ELSE <<224 + (ch \div 4096), 128 + ((ch \div 64) % 64), 128 + (ch % 64)>>
RECURSIVE Ucs2DecodeFrom(_, _)
Ucs2DecodeFrom(units, i) ==
    IF i > Len(units) THEN <<>>
    ELSE Ucs2DecodeUnit(units[i]) \o Ucs2DecodeFrom(units, i + 1)
Ucs2Decode(units, cap) ==
    LET out == Ucs2DecodeFrom(units, 1)
    IN  IF Len(out) > cap THEN Err("BufferOverflow") ELSE Ok(out)

(* String::from_utf8: whether the bytes are well-formed UTF-8 (no overlong  *)
(* forms, no surrogates, nothing above U+10FFFF).  ASCII runs are skipped. *)
Cont(bytes, i, lo, hi) == i <= Len(bytes) /\ bytes[i] >= lo /\ bytes[i] <= hi
Utf8CharLen(bytes, i) ==
    LET b == bytes[i]
    IN  CASE b >= 194 /\ b <= 223 /\ Cont(bytes, i + 1, 128, 191) -> 2
          [] b = 224 /\ Cont(bytes, i + 1, 160, 191) /\ Cont(bytes, i + 2, 128, 191) -> 3
          [] b >= 225 /\ b <= 236 /\ Cont(bytes, i + 1, 128, 191)
                /\ Cont(bytes, i + 2, 128, 191) -> 3
          [] b = 237 /\ Cont(bytes, i + 1, 128, 159) /\ Cont(bytes, i + 2, 128, 191) -> 3
          [] b >= 238 /\ b <= 239 /\ Cont(bytes, i + 1, 128, 191)
                /\ Cont(bytes, i + 2, 128, 191) -> 3
          [] b = 240 /\ Cont(bytes, i + 1, 144, 191) /\ Cont(bytes, i + 2, 128, 191)
                /\ Cont(bytes, i + 3, 128, 191) -> 4
          [] b >= 241 /\ b <= 243 /\ Cont(bytes, i + 1, 128, 191)
                /\ Cont(bytes, i + 2, 128, 191) /\ Cont(bytes, i + 3, 128, 191) -> 4
          [] b = 244 /\ Cont(bytes, i + 1, 128, 143) /\ Cont(bytes, i + 2, 128, 191)
                /\ Cont(bytes, i + 3, 128, 191) -> 4
          [] OTHER -> 0
RECURSIVE Utf8ValidFrom(_, _)
Utf8ValidFrom(bytes, i) ==
    LET rest == {p \in i..Len(bytes) : bytes[p] >= 128}
    IN  IF rest = {} THEN TRUE
        ELSE LET j == CHOOSE p \in rest : \A q \in rest : p <= q
                 n == Utf8CharLen(bytes, j)
             IN  n # 0 /\ Utf8ValidFrom(bytes, j + n)
StringFromUtf8(bytes) == IF Utf8ValidFrom(bytes, 1) THEN Ok(bytes) ELSE Err("FromUtf8Error")

(***************************************************************************)
(* Level (src/src/level.rs).                                               *)
(***************************************************************************)
LEVEL_SIZE == 86016             \* 0x15000
NAME_UNITS == 33                \* 0x21
MII_DATA_SIZE == 96             \* 0x60
OBJECTS_OFFSET == 240           \* 0xF0
SOUND_EFFECTS_OFFSET == 83440   \* 0x145F0
SOUND_EFFECT_COUNT == 300

\* where the checksum is written: `Cursor::new(&mut bytes[..])` starts at 0
ChecksumCursor(c) == Cursor(c.bytes)

\* the 0x42 bytes of the name field from the 0x21 units ucs2::encode left
NameBytes(name) ==
    [k \in 1..(2 * NAME_UNITS) |-> IF k % 2 = 1 THEN name[(k + 1) \div 2] % 256 ELSE 0]

\* <Level as PackedStruct>::pack
LevelPack(l) ==
    LET c0 == Cursor(ZeroBuf(LEVEL_SIZE))
        c1 == WriteAll(c0, U64ToBe(l.version))
        c2 == WriteAll(Seek(c1, 16), U16ToBe(l.creation_time.year % 65536))
        c3 == WriteAll(c2, <<l.creation_time.month % 256>>)
        c4 == WriteAll(c3, <<l.creation_time.day % 256>>)
        c5 == WriteAll(c4, <<l.creation_time.hour % 256>>)
        c6 == WriteAll(c5, <<l.creation_time.minute % 256>>)
        encoded == Ucs2Encode(l.level_name, NAME_UNITS)
    IN  IF encoded.tag = "Err" THEN Err("InternalError")
        ELSE
    LET name == encoded.value \o Zeros(NAME_UNITS - Len(encoded.value))
        c7 == WriteAll(Seek(c6, 40), NameBytes(name))
        c8 == WriteAll(c7, GameModePack(l.game_mode))
        c9 == WriteAll(Seek(c8, 109), <<CourseThemeToU8(l.course_theme)>>)
        c10 == WriteAll(Seek(c9, 112), U16ToBe(l.time_limit))
        c11 == WriteAll(c10, <<AutoScrollToU8(l.auto_scroll)>>)
        c12 == WriteAll(c11, <<l.flags>>)
        c13 == WriteAll(c12, U32ToBe(l.width))
        c14 == WriteAll(c13, l.mii_data)
        object_count == U32OfNat(Len(l.objects))
        c15 == WriteAll(Seek(c14, 236), U32ToBe(object_count))
        c16 == WriteAllRecords(c15, OBJECT_SIZE,
                               [i \in 1..Len(l.objects) |-> ObjectPack(l.objects[i])])
        c17 == WriteAllRecords(Seek(c16, SOUND_EFFECTS_OFFSET), SOUND_EFFECT_SIZE,
                   [i \in 1..Len(l.sound_effects) |-> SoundEffectPack(l.sound_effects[i])])
        c18 == Seek(c17, 8)
        \* the end of pack, from `let checksum` on, given the cursor after the seek
        Finish(c) ==
            IF c.failed THEN Err("InternalError")
            ELSE LET checksum == Crc32(c.bytes, 16, LEVEL_SIZE)
                     Written(d) == IF d.failed THEN Err("InternalError") ELSE Ok(d.bytes)
                 IN  Written(WriteAll(ChecksumCursor(c), U32ToBe(checksum)))
    IN  Finish(c18)

\* whether the u32 x is greater than the natural number n
U32Gt(x, n) == x[2] > n \div 65536 \/ (x[2] = n \div 65536 /\ x[1] > n % 65536)
U32ToNat(x) == x[2] * 65536 + x[1]

\* <Level as PackedStruct>::unpack; s holds exactly LEVEL_SIZE bytes
LevelUnpack(s) ==
    LET version == U64FromBe(Slice(s, 0, 8))
        year == U16FromBe(Slice(s, 16, 18))
        date == FromYmdOpt(year, ByteAt(s, 18), ByteAt(s, 19))
        time == FromHmsOpt(ByteAt(s, 20), ByteAt(s, 21), 0)
        name_chars == [i \in 1..NAME_UNITS |->
                          U16FromBe(Slice(s, 40 + (i - 1) * 2, 40 + (i - 1) * 2 + 2))]
        decoded == Ucs2Decode(name_chars, NAME_UNITS * 4)
        name_bytes == decoded.value \o Zeros(NAME_UNITS * 4 - Len(decoded.value))
        name == StringFromUtf8(name_bytes)
        game_mode == GameModeUnpack(Slice(s, 106, 108))
        course_theme == CourseThemeTryFrom(ByteAt(s, 109))
        time_limit == U16FromBe(Slice(s, 112, 114))
        auto_scroll == AutoScrollTryFrom(ByteAt(s, 114))
        flags == ByteAt(s, 115)
        width == U32FromBe(Slice(s, 116, 120))
        mii_data == Slice(s, 120, 120 + MII_DATA_SIZE)
        object_count == U32FromBe(Slice(s, 236, 240))
        \* the first i whose slice src[0xF0 + i*0x20 .. 0xF0 + (i+1)*0x20] ends past
        \* the buffer: indexing it panics
        fits == (s.len - OBJECTS_OFFSET) \div OBJECT_SIZE
    IN  IF date = None \/ time = None THEN Err("InvalidValue")
        ELSE IF decoded.tag = "Err" \/ name.tag = "Err" THEN Err("InternalError")
        ELSE IF game_mode.tag = "Err" \/ course_theme.tag = "Err"
                \/ auto_scroll.tag = "Err" THEN Err("InvalidValue")
        ELSE IF U32Gt(object_count, fits) THEN Panic
        ELSE Ok([version |-> version,
                 creation_time |-> NaiveDateTime(date.value, time.value),
                 level_name |-> name.value,
                 game_mode |-> game_mode.value,
                 course_theme |-> course_theme.value,
                 time_limit |-> time_limit,
                 auto_scroll |-> auto_scroll.value,
                 flags |-> flags,
                 width |-> width,
                 mii_data |-> mii_data,
                 objects |-> [i \in 1..U32ToNat(object_count) |->
                                 ObjectUnpack(Slice(s, OBJECTS_OFFSET + (i - 1) * OBJECT_SIZE,
                                                    OBJECTS_OFFSET + i * OBJECT_SIZE))],
                 sound_effects |-> [i \in 1..SOUND_EFFECT_COUNT |->
                     SoundEffectUnpack(
                         Slice(s, SOUND_EFFECTS_OFFSET + (i - 1) * SOUND_EFFECT_SIZE,
                               SOUND_EFFECTS_OFFSET + i * SOUND_EFFECT_SIZE))]])

\* Level::from_bytes
LevelFromBytes(bytes) ==
    IF bytes.len # LEVEL_SIZE THEN Err(InvalidData)
    ELSE LET map_err(r) == CASE r.tag = "Ok" -> Ok(r.value)
                              [] r.tag = "Err" -> Err(InvalidData)
                              [] r.tag = "Panic" -> Panic
         IN  map_err(LevelUnpack(bytes))

\* Level::to_bytes
LevelToBytes(l) ==
    LET map_err(r) == IF r.tag = "Err" THEN Err(InvalidData) ELSE Ok(r.value)
    IN  map_err(LevelPack(l))

(***************************************************************************)
(* Thumbnail (src/src/thumbnail.rs).                                       *)
(***************************************************************************)
THUMBNAIL_MAX_JPEG == 51192     \* 0xC7F8
THUMBNAIL_SIZE == 51200         \* 0xC800

Returned(v) == [tag |-> "Returned", value |-> v]

(* Thumbnail::from_bytes returns a Thumbnail, not a Result: bytes[0x4..0x8]  *)
(* panics on fewer than 8 bytes and bytes[0x8..0x8 + jpeg_length] panics    *)
(* when the length prefix runs past the buffer.                            *)
\* a decoder that takes everything after the header as the payload
ThumbnailFromBytesToEnd(bytes) ==
    IF bytes.len < 8 THEN Panic
    ELSE Returned([jpeg_data |-> SubBuf(bytes, 8, bytes.len)])

ThumbnailFromBytes(bytes) ==
    IF bytes.len < 8 THEN Panic
    ELSE LET jpeg_length == U32FromBe(Slice(bytes, 4, 8))
         IN  IF U32Gt(jpeg_length, bytes.len - 8) THEN Panic
             ELSE Returned([jpeg_data |-> SubBuf(bytes, 8, 8 + U32ToNat(jpeg_length))])

\* a size check that also turns away a payload of exactly the maximum length
ThumbnailTooLargeAtLimit(t) == t.jpeg_data.len >= THUMBNAIL_MAX_JPEG

\* the size check of Thumbnail::to_bytes
ThumbnailTooLarge(t) == t.jpeg_data.len > THUMBNAIL_MAX_JPEG

\* the bytes the checksum of Thumbnail::to_bytes is computed over
ThumbnailHashed(bytes_without_checksum) ==
    Crc32(bytes_without_checksum, 0, bytes_without_checksum.len)

\* Thumbnail::to_bytes
ThumbnailToBytes(t) ==
    IF ThumbnailTooLarge(t) THEN Err(FileTooLarge)
    ELSE LET jpeg_length == U32ToBe(U32OfNat(t.jpeg_data.len))
             b1 == Extend(ZeroBuf(0), BufOfSeq(jpeg_length))
             b2 == Extend(b1, t.jpeg_data)
             bytes_without_checksum == Resize(b2, THUMBNAIL_SIZE - 4)
             checksum == ThumbnailHashed(bytes_without_checksum)
             bytes == Extend(Extend(ZeroBuf(0), BufOfSeq(U32ToBe(checksum))),
                             bytes_without_checksum)
         IN  Ok(bytes)

(***************************************************************************)
(* Course (src/src/course.rs).                                             *)
(***************************************************************************)
CourseDataMembers == {"CourseData", "CourseDataSub", "Thumbnail0", "Thumbnail1"}

(* Course::from_bytes: the four fields of the struct literal are evaluated  *)
(* in order; `?` returns the first Level error as it is, and a panic of    *)
(* Thumbnail::from_bytes aborts the call.                                  *)
CourseFromBytes(lvl, sub_level, level_preview, level_thumbnail) ==
    LET r1 == LevelFromBytes(lvl)
    IN  IF r1.tag # "Ok" THEN r1
        ELSE
    LET r2 == LevelFromBytes(sub_level)
    IN  IF r2.tag # "Ok" THEN r2
        ELSE
    LET r3 == ThumbnailFromBytes(level_preview)
    IN  IF r3.tag = "Panic" THEN Panic
        ELSE
    LET r4 == ThumbnailFromBytes(level_thumbnail)
    IN  IF r4.tag = "Panic" THEN Panic
        ELSE Ok([level |-> r1.value, sub_level |-> r2.value,
                 level_preview |-> r3.value, level_thumbnail |-> r4.value])

(* Course::from_tar after the loop: the four ok_or(...)? arguments are      *)
(* evaluated in order, all before Course::from_bytes is called.            *)
TarFinish(lvl, sub_level, level_preview, level_thumbnail) ==
    IF lvl = None THEN Err(MissingCourseData("CourseData"))
    ELSE IF sub_level = None THEN Err(MissingCourseData("CourseDataSub"))
    ELSE IF level_preview = None THEN Err(MissingCourseData("Thumbnail0"))
    ELSE IF level_thumbnail = None THEN Err(MissingCourseData("Thumbnail1"))
    ELSE CourseFromBytes(lvl.value, sub_level.value, level_preview.value,
                         level_thumbnail.value)

(***************************************************************************)
(* Inputs.  The library is a set of pure functions; the callers' inputs    *)
(* are drawn from the sets below.                                          *)
(***************************************************************************)
MaxSmallObjects == 2    \* object tables of 0..MaxSmallObjects records, besides the
                        \* tables around the capacity
MaxLenDelta == 1        \* buffers up to MaxLenDelta bytes shorter or longer
MaxSmallJpeg == 3       \* payloads of 0..MaxSmallJpeg bytes, besides those around
                        \* the maximum
MaxEntries == 4         \* archive entries read by one Course::from_tar

OBJECT_CAPACITY == 2600 \* obj_t[2600]: the object slots before the sound effects

\* Level::new
LevelNew(version, creation_time, level_name, game_mode, course_theme, time_limit, auto_scroll, flags, width, mii_data, objects, sound_effects) ==
    [version |-> version, creation_time |-> creation_time, level_name |-> level_name,
     game_mode |-> game_mode, course_theme |-> course_theme, time_limit |-> time_limit,
     auto_scroll |-> auto_scroll, flags |-> flags, width |-> width,
     mii_data |-> mii_data, objects |-> objects, sound_effects |-> sound_effects]

\* Object::new
ObjectNew(x_position, z_position, y_position, width, height, object_flags, child_object_flags, extended_object_data, object_type, child_object_type, link_id, effect_index, transformation_id, child_object_transformation_id) ==
    [x_position |-> x_position, z_position |-> z_position, y_position |-> y_position,
     width |-> width, height |-> height, object_flags |-> object_flags,
     child_object_flags |-> child_object_flags,
     extended_object_data |-> extended_object_data, object_type |-> object_type,
     child_object_type |-> child_object_type, link_id |-> link_id,
     effect_index |-> effect_index, transformation_id |-> transformation_id,
     child_object_transformation_id |-> child_object_transformation_id]

DateTime(y, mo, d, h, mi, sec) ==
    [year |-> y, month |-> mo, day |-> d, hour |-> h, minute |-> mi, second |-> sec]

ZeroObject == ObjectNew(<<0, 0>>, <<0, 0>>, 0, 0, 0, <<0, 0>>, <<0, 0>>, <<0, 0>>, 0, 0, 0, 0, 0, 0)
ObjectA == ObjectNew(<<1600, 0>>, <<0, 1>>, -10, 1, -1, <<64, 1536>>, <<65535, 65535>>,
                     <<0, 32768>>, 4, -1, -1, -1, -1, 127)
ObjectB == ObjectNew(<<65535, 65535>>, <<7, 0>>, 32767, -128, 127, <<0, 0>>, <<1, 0>>,
                     <<258, 772>>, -128, 9, 5, -32768, 0, -128)
\* a table of n objects: ObjectA first, ObjectB last, zero objects between
ObjectTable(n) ==
    [i \in 1..n |-> IF i = 1 THEN ObjectA ELSE IF i = n THEN ObjectB ELSE ZeroObject]
ObjectTableSizes ==
    (0..MaxSmallObjects) \cup {OBJECT_CAPACITY, OBJECT_CAPACITY + 1,
                               ((LEVEL_SIZE - OBJECTS_OFFSET) \div OBJECT_SIZE) + 1}
\* a table of n sound effects: v first and last, zero between
SoundEffectTable(n, v) ==
    [i \in 1..n |-> [unknown |-> IF i = 1 \/ i = n THEN v ELSE <<0, 0>>]]

AsciiName(n) == [i \in 1..n |-> 97 + (i % 26)]
SampleNames ==
    {<<>>, Utf8OfChars(<<65>>), Utf8OfChars(<<77, 97, 114, 105, 111>>),
     Utf8OfChars(<<65, 233, 8364>>),            \* 1-, 2- and 3-byte characters
     Utf8OfChars(<<16640>>),                    \* U+4100
     Utf8OfChars(<<65, 128512>>),               \* a character above U+FFFF
     Utf8OfChars(<<65, 0, 66>>),                \* a NUL inside
     Utf8OfChars([i \in 1..32 |-> 8364]),       \* 32 three-byte characters
     AsciiName(31), AsciiName(32), AsciiName(33), AsciiName(34)}
SampleVersions == {<<11, 0, 0, 0>>, <<1800, 1286, 772, 258>>}
SampleTimes ==
    {DateTime(2015, 9, 11, 12, 34, 0), DateTime(2016, 2, 29, 23, 59, 0),
     DateTime(0, 1, 1, 0, 0, 0), DateTime(65535, 12, 31, 23, 59, 0),
     DateTime(2015, 9, 11, 12, 34, 56), DateTime(70000, 1, 1, 0, 0, 0)}
BaseTime == DateTime(2015, 9, 11, 12, 34, 0)
BaseMii == [i \in 1..MII_DATA_SIZE |-> 0]
BaseEffects == SoundEffectTable(SOUND_EFFECT_COUNT, <<0, 0>>)
BaseLevel(version, name, time, mode, theme, scroll, objects, effects) ==
    LevelNew(version, time, name, mode, theme, 300, scroll, 0, <<3840, 0>>, BaseMii,
             objects, effects)

SampleLevels ==
    {BaseLevel(v, n, BaseTime, "SuperMarioBros", "Overworld", "None", <<>>, BaseEffects) :
        v \in SampleVersions, n \in SampleNames}
    \cup
    {BaseLevel(<<11, 0, 0, 0>>, <<65>>, t, "Mario3", "Castle", "Slow", <<>>, BaseEffects) :
        t \in SampleTimes}
    \cup
    {BaseLevel(<<11, 0, 0, 0>>, <<>>, BaseTime, g, CourseThemes[t], AutoScrolls[a], <<>>,
               BaseEffects) : g \in GameModes, t \in 1..6, a \in 1..4}
    \cup
    {LevelNew(<<11, 0, 0, 0>>, BaseTime, <<66>>, "MarioWorld", "Water", tl, "Fast", f, w,
              [i \in 1..MII_DATA_SIZE |-> m], <<>>, BaseEffects) :
        tl \in {0, 65535}, f \in {255}, w \in {<<65535, 65535>>}, m \in {1, 255}}
    \cup
    {BaseLevel(<<11, 0, 0, 0>>, <<67>>, BaseTime, "NewSuperMarioBrosU", "Airship", "Medium",
               ObjectTable(n), SoundEffectTable(SOUND_EFFECT_COUNT, e)) :
        n \in ObjectTableSizes, e \in {<<0, 0>>, <<513, 65280>>}}
    \cup
    {BaseLevel(<<11, 0, 0, 0>>, <<68>>, BaseTime, "Mario3", "GhostHouse", "None",
               ObjectTable(1), SoundEffectTable(n, <<7, 9>>)) :
        n \in {0, SOUND_EFFECT_COUNT - 1, SOUND_EFFECT_COUNT + 1,
               (LEVEL_SIZE - SOUND_EFFECTS_OFFSET) \div SOUND_EFFECT_SIZE,
               ((LEVEL_SIZE - SOUND_EFFECTS_OFFSET) \div SOUND_EFFECT_SIZE) + 1}}
    \cup
    {BaseLevel(<<11, 0, 0, 0>>, <<69>>, BaseTime, "MarioWorld", "Underground", "Fast",
               ObjectTable(OBJECT_CAPACITY + 1), SoundEffectTable(0, <<0, 0>>))}

(* A level file as a caller may hand it to Level::from_bytes: len bytes,    *)
(* zero except for the calendar fields, the name units, the game-mode tag, *)
(* the theme and auto-scroll bytes, the object count and marker bytes in   *)
(* the first object slot and the first and last sound-effect slots.        *)
RawLevel(len, date, units, mode, theme, scroll, count) ==
    IF len < OBJECTS_OFFSET + OBJECT_SIZE THEN ZeroBuf(len)
    ELSE LET b1 == WriteAt(ZeroBuf(len), 0, <<0, 0, 0, 0, 0, 0, 0, 11>>)
             b2 == WriteAt(b1, 16, date)
             b3 == WriteRecords(b2, 40, 2, [i \in 1..Len(units) |-> U16ToBe(units[i])])
             b4 == WriteAt(b3, 106, mode \o <<0, theme>>)
             b5 == WriteAt(b4, 112, <<1, 44, scroll>>)
             b6 == WriteAt(b5, 236, U32ToBe(count))
             b7 == WriteAt(b6, OBJECTS_OFFSET, ObjectPack(ObjectA))
             b8 == WriteAt(b7, SOUND_EFFECTS_OFFSET, <<1, 2, 3, 4, 5, 6, 7, 8>>)
             b9 == WriteAt(b8, SOUND_EFFECTS_OFFSET
                                 + (SOUND_EFFECT_COUNT - 1) * SOUND_EFFECT_SIZE,
                           <<255, 254, 253, 252, 0, 0, 0, 251>>)
         IN  b9
RawDate == <<7, 223, 9, 11, 12, 34>>       \* 2015-09-11 12:34
RawDates ==
    {RawDate, <<7, 224, 2, 29, 23, 59>>, <<0, 0, 1, 1, 0, 0>>, <<255, 255, 12, 31, 0, 0>>,
     <<7, 223, 2, 29, 0, 0>>, <<7, 223, 0, 1, 0, 0>>, <<7, 223, 13, 1, 0, 0>>,
     <<7, 223, 4, 31, 0, 0>>, <<7, 223, 1, 0, 0, 0>>, <<7, 223, 1, 1, 24, 0>>,
     <<7, 223, 1, 1, 0, 60>>, <<0, 0, 0, 0, 0, 0>>}
RawNames ==
    {<<>>, <<65>>, <<77, 97, 114, 105, 111>>, <<65, 233, 8364>>, <<16640>>,
     <<65, 66, 0, 67>>, <<0, 65>>, [i \in 1..32 |-> 120], [i \in 1..33 |-> 120],
     [i \in 1..33 |-> 65535], <<65, 55357, 56832>>, <<56832>>}
RawModes ==
    {<<77, 49>>, <<77, 51>>, <<77, 87>>, <<87, 85>>,
     <<77, 50>>, <<49, 77>>, <<87, 87>>, <<85, 87>>, <<109, 49>>, <<77, 0>>, <<0, 0>>,
     <<0, 49>>, <<255, 255>>, <<77, 85>>, <<87, 49>>}
RawThemes == (0..7) \cup {255}
RawScrolls == (0..5) \cup {255}
ObjectsThatFit == (LEVEL_SIZE - OBJECTS_OFFSET) \div OBJECT_SIZE
RawCounts ==
    {U32OfNat(n) : n \in (0..MaxSmallObjects) \cup
                         {OBJECT_CAPACITY, OBJECT_CAPACITY + 1,
                          ObjectsThatFit, ObjectsThatFit + 1, 65535}}
    \cup {<<0, 1>>, <<0, 32768>>, <<65535, 65535>>}
\* counts that keep decoding cheap, for the inputs that vary another field
FewCounts == {<<0, 0>>, <<1, 0>>, U32OfNat(ObjectsThatFit + 1), <<65535, 65535>>}
RawLengths ==
    {0} \cup {LEVEL_SIZE - k : k \in 1..MaxLenDelta} \cup {LEVEL_SIZE + k : k \in 1..MaxLenDelta}

SampleBuffers ==
    {RawLevel(n, RawDate, <<65>>, <<77, 49>>, 0, 0, c) : n \in RawLengths, c \in FewCounts}
    \cup {RawLevel(LEVEL_SIZE, RawDate, <<65>>, <<77, 49>>, 0, 0, c) : c \in RawCounts}
    \cup {RawLevel(LEVEL_SIZE, d, <<65>>, <<77, 51>>, 1, 1, c) : d \in RawDates, c \in FewCounts}
    \cup {RawLevel(LEVEL_SIZE, RawDate, n, <<77, 87>>, 2, 2, <<1, 0>>) : n \in RawNames}
    \cup {RawLevel(LEVEL_SIZE, RawDate, <<>>, m, 3, 3, c) : m \in RawModes, c \in FewCounts}
    \cup {RawLevel(LEVEL_SIZE, RawDate, <<>>, <<87, 85>>, t, s, c) :
             t \in RawThemes, s \in {0, 3, 4}, c \in FewCounts}
    \cup {RawLevel(LEVEL_SIZE, RawDate, <<>>, <<87, 85>>, t, s, c) :
             t \in {0, 5, 6}, s \in RawScrolls, c \in FewCounts}

NoLevel == [tag |-> "NoLevel"]
NoBuf == [tag |-> "NoBuf"]
NoThumbnail == [tag |-> "NoThumbnail"]

(***************************************************************************)
(* The Level codec as a state machine.                                     *)
(***************************************************************************)
Init ==
    /\ level = NoLevel /\ packed = NotCalled /\ src = NoBuf /\ unpacked = NotCalled
    /\ relevel = NoLevel /\ repacked = NotCalled
    /\ thumbnail = NoThumbnail /\ tnl_packed = NotCalled /\ tnl_src = NoBuf
    /\ tnl_unpacked = NotCalled
    /\ entries = <<>> /\ level_buf = None /\ sub_level_buf = None /\ preview_buf = None
    /\ thumbnail_buf = None /\ course_pc = "idle" /\ course = NotCalled

\* a caller builds a Level (Level::new)
NewLevel ==
    /\ level = NoLevel /\ src = NoBuf
    /\ \E l \in SampleLevels : level' = l
    /\ UNCHANGED <<packed, src, unpacked, relevel, repacked, tnl_vars, course_vars>>

\* level.to_bytes()
ToBytes ==
    /\ level # NoLevel /\ packed = NotCalled
    /\ packed' = LevelToBytes(level)
    /\ UNCHANGED <<level, src, unpacked, relevel, repacked, tnl_vars, course_vars>>

\* Level::from_bytes(&bytes) on the bytes to_bytes returned
FromPackedBytes ==
    /\ packed.tag = "Ok" /\ unpacked = NotCalled
    /\ src' = packed.value
    /\ unpacked' = LevelFromBytes(packed.value)
    /\ UNCHANGED <<level, packed, relevel, repacked, tnl_vars, course_vars>>

\* Level::from_bytes(&bytes) on a caller's buffer
FromBytes ==
    /\ level = NoLevel /\ src = NoBuf
    /\ \E b \in SampleBuffers :
         /\ src' = b
         /\ unpacked' = LevelFromBytes(b)
    /\ UNCHANGED <<level, packed, relevel, repacked, tnl_vars, course_vars>>

(* A caller takes the Level that from_bytes returned to encode it again:   *)
(* as it is, or with its public field level_name set to a new String.      *)
ReencodeNames == {<<>>, <<65>>}
TakeDecoded ==
    /\ unpacked.tag = "Ok" /\ relevel = NoLevel
    /\ \/ relevel' = unpacked.value
       \/ \E n \in ReencodeNames : relevel' = [unpacked.value EXCEPT !.level_name = n]
    /\ UNCHANGED <<level, packed, src, unpacked, repacked, tnl_vars, course_vars>>

\* relevel.to_bytes()
Reencode ==
    /\ relevel # NoLevel /\ repacked = NotCalled
    /\ repacked' = LevelToBytes(relevel)
    /\ UNCHANGED <<level, packed, src, unpacked, relevel, tnl_vars, course_vars>>

NextLevel == NewLevel \/ ToBytes \/ FromPackedBytes \/ FromBytes \/ TakeDecoded \/ Reencode
SpecLevel == Init /\ [][NextLevel]_vars

(***************************************************************************)
(* The Thumbnail codec as a state machine.                                 *)
(***************************************************************************)
\* a payload of n bytes: zero except for its first and last byte
Jpeg(n, first, last) ==
    IF n = 0 THEN ZeroBuf(0)
    ELSE WriteAt(WriteAt(ZeroBuf(n), 0, <<first>>), n - 1, <<last>>)
JpegLens ==
    (0..MaxSmallJpeg) \cup {THUMBNAIL_MAX_JPEG - 1, THUMBNAIL_MAX_JPEG,
                            THUMBNAIL_MAX_JPEG + 1, THUMBNAIL_SIZE}
SampleJpegs ==
    {Jpeg(n, f, l) : n \in JpegLens, f \in {0, 1, 255}, l \in {0, 217}}
    \cup {BufOfSeq([i \in 1..n |-> 256 - i]) : n \in 1..MaxSmallJpeg}

\* a thumbnail file as a caller may hand it to Thumbnail::from_bytes: len bytes,
\* the length prefix at 0x04 (when it fits) and a marker in the first payload byte
RawThumbnail(len, prefix) ==
    IF len < 8 THEN WriteAt(ZeroBuf(len), 0, SubSeq(<<222, 173, 190, 239, 0, 0, 1>>, 1, len))
    ELSE LET b == WriteAt(ZeroBuf(len), 0, <<222, 173, 190, 239>> \o U32ToBe(prefix))
         IN  IF len > 8 THEN WriteAt(b, 8, <<255>>) ELSE b
SampleThumbnailBuffers ==
    {RawThumbnail(n, p) :
        n \in (0..(8 + MaxSmallJpeg)) \cup {THUMBNAIL_SIZE},
        p \in {U32OfNat(k) : k \in (0..(MaxSmallJpeg + 1)) \cup
                               {THUMBNAIL_MAX_JPEG, THUMBNAIL_MAX_JPEG + 1}}
              \cup {<<0, 1>>, <<65535, 65535>>}}

\* a caller builds a Thumbnail
NewThumbnail ==
    /\ thumbnail = NoThumbnail /\ tnl_src = NoBuf
    /\ \E j \in SampleJpegs : thumbnail' = [jpeg_data |-> j]
    /\ UNCHANGED <<tnl_packed, tnl_src, tnl_unpacked, level_vars, course_vars>>

\* thumbnail.to_bytes()
ThumbnailToBytesCall ==
    /\ thumbnail # NoThumbnail /\ tnl_packed = NotCalled
    /\ tnl_packed' = ThumbnailToBytes(thumbnail)
    /\ UNCHANGED <<thumbnail, tnl_src, tnl_unpacked, level_vars, course_vars>>

\* Thumbnail::from_bytes(&bytes) on the bytes to_bytes returned
ThumbnailFromPackedBytes ==
    /\ tnl_packed.tag = "Ok" /\ tnl_unpacked = NotCalled
    /\ tnl_src' = tnl_packed.value
    /\ tnl_unpacked' = ThumbnailFromBytes(tnl_packed.value)
    /\ UNCHANGED <<thumbnail, tnl_packed, level_vars, course_vars>>

\* Thumbnail::from_bytes(&bytes) on a caller's buffer
ThumbnailFromBytesCall ==
    /\ thumbnail = NoThumbnail /\ tnl_src = NoBuf
    /\ \E b \in SampleThumbnailBuffers :
         /\ tnl_src' = b
         /\ tnl_unpacked' = ThumbnailFromBytes(b)
    /\ UNCHANGED <<thumbnail, tnl_packed, level_vars, course_vars>>

NextThumbnail ==
    NewThumbnail \/ ThumbnailToBytesCall \/ ThumbnailFromPackedBytes \/ ThumbnailFromBytesCall
SpecThumbnail == Init /\ [][NextThumbnail]_vars

(***************************************************************************)
(* The Course aggregate as a state machine: Course::from_bytes as one      *)
(* step, Course::from_tar as its loop over the archive's entries followed  *)
(* by the call of Course::from_bytes.                                      *)
(***************************************************************************)
ValidLevelBuffers ==
    {RawLevel(LEVEL_SIZE, RawDate, <<65>>, <<77, 49>>, 0, 0, <<1, 0>>)}
InvalidLevelBuffers ==
    {RawLevel(LEVEL_SIZE - 1, RawDate, <<65>>, <<77, 49>>, 0, 0, <<1, 0>>),   \* wrong size
     RawLevel(LEVEL_SIZE, RawDate, <<65>>, <<77, 50>>, 0, 0, <<1, 0>>),       \* bad game mode
     RawLevel(LEVEL_SIZE, RawDate, <<65>>, <<77, 49>>, 6, 0, <<1, 0>>),       \* bad theme
     RawLevel(LEVEL_SIZE, <<7, 223, 13, 1, 0, 0>>, <<65>>, <<77, 49>>, 0, 0, <<1, 0>>)}
                                                                              \* month 13
ValidThumbnailBuffers == {RawThumbnail(8, <<0, 0>>), RawThumbnail(9, <<1, 0>>)}
InvalidThumbnailBuffers ==
    {RawThumbnail(7, <<0, 0>>),      \* shorter than 8 bytes
     RawThumbnail(9, <<2, 0>>)}      \* the length prefix runs past the buffer

\* Course::from_bytes(level, sub_level, level_preview, level_thumbnail)
CourseFromBytesCall ==
    /\ course_pc = "idle"
    /\ \E l \in ValidLevelBuffers \cup InvalidLevelBuffers,
          sl \in ValidLevelBuffers \cup InvalidLevelBuffers,
          p \in ValidThumbnailBuffers \cup InvalidThumbnailBuffers,
          t \in ValidThumbnailBuffers \cup InvalidThumbnailBuffers :
         /\ level_buf' = Some(l) /\ sub_level_buf' = Some(sl)
         /\ preview_buf' = Some(p) /\ thumbnail_buf' = Some(t)
         /\ course' = CourseFromBytes(l, sl, p, t)
    /\ course_pc' = "bytes_done"
    /\ UNCHANGED <<entries, level_vars, tnl_vars>>

(* An archive entry, as from_tar sees it: what                              *)
(* entry.path()?.file_name() and .to_str() give, and the entry's bytes.    *)
(* file_name() is None for a path that ends in ".." or is "./"; to_str()   *)
(* is None for a name that is not Unicode.  TarUnreadable is an entry the  *)
(* archive fails to deliver.                                               *)
TarFile(file_name, unicode) == [read |-> "Ok", file_name |-> file_name, unicode |-> unicode]
TarUnreadable == [read |-> "Err", file_name |-> None, unicode |-> FALSE]
MemberNames == {"course_data.cdt", "course_data_sub.cdt", "thumbnail0.tnl", "thumbnail1.tnl"}
EntryNames == MemberNames \cup {"readme.txt"}
EntryData(name) ==
    IF name \in {"course_data.cdt", "course_data_sub.cdt"}
    THEN {RawLevel(LEVEL_SIZE, RawDate, <<65>>, <<77, 49>>, 0, 0, <<1, 0>>),
          RawLevel(LEVEL_SIZE - 1, RawDate, <<65>>, <<77, 49>>, 0, 0, <<1, 0>>)}
    ELSE IF name \in {"thumbnail0.tnl", "thumbnail1.tnl"}
    THEN {RawThumbnail(9, <<1, 0>>), RawThumbnail(7, <<0, 0>>)}
    ELSE {RawThumbnail(8, <<0, 0>>)}

\* Course::from_tar(&mut archive): the four locals start as None
FromTarBegin ==
    /\ course_pc = "idle"
    /\ course_pc' = "tar_loop"
    /\ UNCHANGED <<entries, level_buf, sub_level_buf, preview_buf, thumbnail_buf, course,
                   level_vars, tnl_vars>>

\* one iteration of the loop, on an entry whose path has a Unicode file name
TarEntry ==
    /\ course_pc = "tar_loop" /\ Len(entries) < MaxEntries
    /\ \E name \in EntryNames : \E buffer \in EntryData(name) :
         /\ entries' = Append(entries, TarFile(Some(name), TRUE))
         /\ level_buf' = IF name = "course_data.cdt" THEN Some(buffer) ELSE level_buf
         /\ sub_level_buf' =
                IF name = "course_data_sub.cdt" THEN Some(buffer) ELSE sub_level_buf
         /\ preview_buf' = IF name = "thumbnail0.tnl" THEN Some(buffer) ELSE preview_buf
         /\ thumbnail_buf' = IF name = "thumbnail1.tnl" THEN Some(buffer) ELSE thumbnail_buf
    /\ UNCHANGED <<course_pc, course, level_vars, tnl_vars>>

\* one iteration on an entry whose path has no file name: file_name().unwrap() panics
TarEntryNoFileName ==
    /\ course_pc = "tar_loop" /\ Len(entries) < MaxEntries
    /\ entries' = Append(entries, TarFile(None, TRUE))
    /\ course' = Panic
    /\ course_pc' = "tar_done"
    /\ UNCHANGED <<level_buf, sub_level_buf, preview_buf, thumbnail_buf, level_vars, tnl_vars>>

\* one iteration on an entry whose file name is not Unicode: to_str().unwrap() panics
TarEntryNotUnicode ==
    /\ course_pc = "tar_loop" /\ Len(entries) < MaxEntries
    /\ entries' = Append(entries, TarFile(Some("not unicode"), FALSE))
    /\ course' = Panic
    /\ course_pc' = "tar_done"
    /\ UNCHANGED <<level_buf, sub_level_buf, preview_buf, thumbnail_buf, level_vars, tnl_vars>>

\* archive.entries(), the next entry, its path or read_to_end fails: Error::InvalidData
TarReadError ==
    /\ course_pc = "tar_loop"
    /\ entries' = Append(entries, TarUnreadable)
    /\ course' = Err(InvalidData)
    /\ course_pc' = "tar_done"
    /\ UNCHANGED <<level_buf, sub_level_buf, preview_buf, thumbnail_buf, level_vars, tnl_vars>>

\* the archive has no more entries
TarEnd ==
    /\ course_pc = "tar_loop"
    /\ course' = TarFinish(level_buf, sub_level_buf, preview_buf, thumbnail_buf)
    /\ course_pc' = "tar_done"
    /\ UNCHANGED <<entries, level_buf, sub_level_buf, preview_buf, thumbnail_buf,
                   level_vars, tnl_vars>>

NextCourse ==
    \/ CourseFromBytesCall \/ FromTarBegin \/ TarEntry \/ TarEntryNoFileName
    \/ TarEntryNotUnicode \/ TarReadError \/ TarEnd
SpecCourse == Init /\ [][NextCourse]_vars

(* The three machines share no state: each is checked under its own        *)
(* specification; Spec lets them interleave.                               *)
Next == NextLevel \/ NextThumbnail \/ NextCourse
Spec == Init /\ [][Next]_vars
(***************************************************************************)
(* Properties of the Level codec, checked under SpecLevel.                 *)
(***************************************************************************)
\* the code point of the UTF-8 character whose first byte is bytes[i]
CodePointAt(bytes, i) ==
    LET b == bytes[i]
    IN  IF b < 128 THEN b
        ELSE IF b < 224 THEN (b % 32) * 64 + (bytes[i + 1] % 64)
        ELSE IF b < 240
        THEN (b % 16) * 4096 + (bytes[i + 1] % 64) * 64 + (bytes[i + 2] % 64)
        ELSE (b % 8) * 262144 + (bytes[i + 1] % 64) * 4096
             + (bytes[i + 2] % 64) * 64 + (bytes[i + 3] % 64)
\* the code points of a well-formed UTF-8 string
CodePoints(bytes) ==
    LET first == {i \in 1..Len(bytes) : bytes[i] < 128 \/ bytes[i] >= 192}
        nth(k) == CHOOSE i \in first : Cardinality({j \in first : j < i}) = k - 1
    IN  [k \in 1..Cardinality(first) |-> CodePointAt(bytes, nth(k))]

\* a Level the round-trip contract is stated for
ValidLevel(l) ==
    LET chars == CodePoints(l.level_name)
    IN  /\ Len(chars) <= 32
        /\ \A i \in 1..Len(chars) : chars[i] > 0 /\ chars[i] <= 65535
        /\ l.creation_time.second = 0
        /\ l.creation_time.year \in 0..65535
        /\ Len(l.objects) <= OBJECT_CAPACITY
        /\ Len(l.sound_effects) = SOUND_EFFECT_COUNT

\* the level was built by NewLevel and the decode is of its own encoding
RoundTripDone == level # NoLevel /\ packed.tag = "Ok" /\ unpacked # NotCalled

\* C1: for every valid Level, to_bytes succeeds and from_bytes of the result
\* returns a Level equal to the original in every field.
C1_LevelRoundTrip ==
    (level # NoLevel /\ ValidLevel(level)) =>
        /\ packed # NotCalled => packed.tag = "Ok"
        /\ RoundTripDone => unpacked = Ok(level)

\* the two-byte code units at 0x28 of a level buffer, each read high byte first
NameUnitsBe(b) == [i \in 1..NAME_UNITS |-> ByteAt(b, 38 + 2 * i) * 256 + ByteAt(b, 39 + 2 * i)]
\* the big-endian bytes of a 64-bit value given as four 16-bit limbs, low limb first
VersionBe(v) ==
    <<v[4] \div 256, v[4] % 256, v[3] \div 256, v[3] % 256,
      v[2] \div 256, v[2] % 256, v[1] \div 256, v[1] % 256>>

\* C2: in the output of a successful encode, the four bytes at 0x08 are the
\* big-endian CRC-32 of bytes 0x10..end of that output, and bytes 0x00..0x08
\* are the big-endian version.
C2_ChecksumFraming ==
    (level # NoLevel /\ packed.tag = "Ok") =>
        /\ Slice(packed.value, 8, 12) = U32ToBe(Crc32(packed.value, 16, packed.value.len))
        /\ Slice(packed.value, 0, 8) = VersionBe(level.version)

\* the 32-bit object-count field at 0xEC as limbs, low limb first
CountField(b) ==
    <<ByteAt(b, 238) * 256 + ByteAt(b, 239), ByteAt(b, 236) * 256 + ByteAt(b, 237)>>

\* C5: from_bytes returns InvalidData for every buffer whose length is not
\* 0x15000; for a buffer of that length it returns an error or a Level with
\* as many objects as the count field says and 300 sound effects; it never
\* panics.
C5_LevelDecodeOutcome ==
    (src # NoBuf /\ unpacked # NotCalled) =>
        /\ unpacked.tag # "Panic"
        /\ src.len # LEVEL_SIZE => unpacked = Err(InvalidData)
        /\ (src.len = LEVEL_SIZE /\ unpacked.tag # "Err") =>
              /\ unpacked.tag = "Ok"
              /\ U32OfNat(Len(unpacked.value.objects)) = CountField(src)
              /\ Len(unpacked.value.sound_effects) = 300

\* the variant each of the four game-mode tags stands for
TagVariant(pair) ==
    CASE pair = <<77, 49>> -> "SuperMarioBros"      \* 'M', '1'
      [] pair = <<77, 51>> -> "Mario3"              \* 'M', '3'
      [] pair = <<77, 87>> -> "MarioWorld"          \* 'M', 'W'
      [] pair = <<87, 85>> -> "NewSuperMarioBrosU"  \* 'W', 'U'
      [] OTHER -> "no variant"

\* C6: the game-mode tag decodes to a variant exactly for the four pairs, to
\* the variant the pair stands for, and that variant encodes to the same
\* pair; a buffer with any other pair at 0x6A, a theme byte above 5 at 0x6D or
\* an auto-scroll byte above 3 at 0x72 decodes to InvalidData.
C6_EnumFidelity ==
    /\ (src # NoBuf /\ src.len = LEVEL_SIZE /\ unpacked # NotCalled) =>
          LET pair == Slice(src, 106, 108)
              theme == ByteAt(src, 109)
              scroll == ByteAt(src, 114)
          IN  /\ (GameModeUnpack(pair).tag = "Ok") <=> (TagVariant(pair) # "no variant")
              /\ TagVariant(pair) = "no variant" => unpacked = Err(InvalidData)
              /\ theme > 5 => unpacked = Err(InvalidData)
              /\ scroll > 3 => unpacked = Err(InvalidData)
              /\ unpacked.tag = "Ok" =>
                    /\ unpacked.value.game_mode = TagVariant(pair)
                    /\ GameModePack(unpacked.value.game_mode) = pair
                    /\ unpacked.value.course_theme = CourseThemes[theme + 1]
                    /\ unpacked.value.auto_scroll = AutoScrolls[scroll + 1]
    /\ (level # NoLevel /\ packed.tag = "Ok") =>
          /\ TagVariant(Slice(packed.value, 106, 108)) = level.game_mode
          /\ RoundTripDone /\ unpacked.tag = "Ok" =>
                unpacked.value.game_mode = level.game_mode

\* a buffer whose only fault is the pair ('M','2') at 0x6A has been rejected
C6_Witness ==
    /\ src = RawLevel(LEVEL_SIZE, RawDate, <<>>, <<77, 50>>, 3, 3, <<1, 0>>)
    /\ unpacked = Err(InvalidData)

\* C9: a name of n <= 32 characters, none above U+FFFF, encodes to 33 code
\* units at 0x28, unit i the code of character i with its high byte first
\* and the rest zero; a name with a character above U+FFFF makes encode fail.
\* (Stated for levels whose object and sound-effect tables fit their regions.)
C9_NameFieldEncode ==
    (/\ level # NoLevel /\ packed # NotCalled
     /\ Len(level.objects) <= OBJECT_CAPACITY
     /\ Len(level.sound_effects) = SOUND_EFFECT_COUNT) =>
        LET chars == CodePoints(level.level_name)
        IN  /\ (Len(chars) <= 32 /\ \A i \in 1..Len(chars) : chars[i] <= 65535) =>
                  /\ packed.tag = "Ok"
                  /\ NameUnitsBe(packed.value) =
                        [i \in 1..NAME_UNITS |-> IF i <= Len(chars) THEN chars[i] ELSE 0]
            /\ (\E i \in 1..Len(chars) : chars[i] > 65535) => packed.tag = "Err"

\* the code units before the first zero unit
RECURSIVE BeforeZero(_)
BeforeZero(units) ==
    IF units = <<>> \/ Head(units) = 0 THEN <<>>
    ELSE <<Head(units)>> \o BeforeZero(Tail(units))

\* C10: the decoded level_name is the characters of the code units before the
\* first zero unit at 0x28: no NUL, no padding, empty when the first unit is
\* zero.
C10_NameFieldDecode ==
    (src # NoBuf /\ unpacked.tag = "Ok") =>
        /\ CodePoints(unpacked.value.level_name) = BeforeZero(NameUnitsBe(src))
        /\ \A i \in 1..Len(unpacked.value.level_name) : unpacked.value.level_name[i] # 0
        /\ NameUnitsBe(src)[1] = 0 => unpacked.value.level_name = <<>>

(***************************************************************************)
(* Properties of the Thumbnail codec, checked under SpecThumbnail.         *)
(***************************************************************************)
\* C3: for every Thumbnail of at most 0xC7F8 payload bytes, from_bytes of
\* the bytes to_bytes returns has the same jpeg_data, byte for byte.
C3_ThumbnailRoundTrip ==
    (thumbnail # NoThumbnail /\ thumbnail.jpeg_data.len <= 51192) =>
        /\ tnl_packed # NotCalled => tnl_packed.tag = "Ok"
        /\ tnl_unpacked # NotCalled =>
              /\ tnl_unpacked.tag = "Returned"
              /\ tnl_unpacked.value.jpeg_data.len = thumbnail.jpeg_data.len
              /\ \A i \in 0..(thumbnail.jpeg_data.len - 1) :
                    ByteAt(tnl_unpacked.value.jpeg_data, i) = ByteAt(thumbnail.jpeg_data, i)
              /\ tnl_unpacked.value = thumbnail

\* a payload of the maximum length, with non-zero first and last bytes, has
\* made the round trip
C3_Witness ==
    /\ thumbnail = [jpeg_data |-> Jpeg(51192, 255, 217)]
    /\ tnl_unpacked = Returned(thumbnail)

\* the four big-endian bytes of a natural number below 2^31
NatBe(n) == <<n \div 16777216, (n \div 65536) % 256, (n \div 256) % 256, n % 256>>

\* C4: to_bytes returns FileTooLarge exactly when the payload is longer than
\* 0xC7F8 bytes; otherwise the output has 0xC800 bytes: the big-endian
\* CRC-32 of output bytes 4..end, the big-endian payload length, the payload
\* at 0x08 and zero bytes after it.
C4_ThumbnailEncode ==
    (thumbnail # NoThumbnail /\ tnl_packed # NotCalled) =>
        LET n == thumbnail.jpeg_data.len
        IN  /\ (n > 51192) <=> (tnl_packed = Err(FileTooLarge))
            /\ n <= 51192 =>
                  /\ tnl_packed.tag = "Ok"
                  /\ LET out == tnl_packed.value
                     IN  /\ out.len = 51200
                         /\ Slice(out, 0, 4) = U32ToBe(Crc32(out, 4, out.len))
                         /\ Slice(out, 4, 8) = NatBe(n)
                         /\ \A i \in 0..(n - 1) :
                               ByteAt(out, 8 + i) = ByteAt(thumbnail.jpeg_data, i)
                         /\ \A i \in (8 + n)..(out.len - 1) : ByteAt(out, i) = 0

\* a payload of exactly 0xC7F8 bytes has been encoded
C4_Witness ==
    /\ thumbnail = [jpeg_data |-> Jpeg(51192, 255, 217)]
    /\ tnl_packed.tag = "Ok"
    /\ tnl_packed.value.len = 51200

(***************************************************************************)
(* Properties of the Course aggregate, checked under SpecCourse.           *)
(***************************************************************************)
\* the CourseData variant that names an archive member
MemberOf(name) ==
    CASE name = "course_data.cdt" -> "CourseData"
      [] name = "course_data_sub.cdt" -> "CourseDataSub"
      [] name = "thumbnail0.tnl" -> "Thumbnail0"
      [] name = "thumbnail1.tnl" -> "Thumbnail1"

\* the required members among the entries of the archive
PresentMembers ==
    {name \in MemberNames :
        \E i \in 1..Len(entries) :
            entries[i].unicode /\ entries[i].file_name = Some(name)}

\* from_tar has ended on an archive all of whose entries could be read
FromTarEnded ==
    /\ course_pc = "tar_done"
    /\ \A i \in 1..Len(entries) : entries[i].read = "Ok"

\* C7: when exactly one of the four required members is absent from the
\* archive, whatever other entries it holds, from_tar returns
\* MissingCourseData naming that member.
C7_ArchiveMissingMember ==
    (FromTarEnded /\ Cardinality(MemberNames \ PresentMembers) = 1) =>
        \A name \in MemberNames \ PresentMembers :
            course = Err(MissingCourseData(MemberOf(name)))

\* the arguments of Course::from_bytes that do not decode
InvalidArguments ==
    {m \in CourseDataMembers :
        \/ m = "CourseData" /\ level_buf.value \in InvalidLevelBuffers
        \/ m = "CourseDataSub" /\ sub_level_buf.value \in InvalidLevelBuffers
        \/ m = "Thumbnail0" /\ preview_buf.value \in InvalidThumbnailBuffers
        \/ m = "Thumbnail1" /\ thumbnail_buf.value \in InvalidThumbnailBuffers}

\* what Course::from_bytes does when only the level, or only the main
\* thumbnail, is invalid
OutcomeBadLevel ==
    CourseFromBytes(RawLevel(LEVEL_SIZE - 1, RawDate, <<65>>, <<77, 49>>, 0, 0, <<1, 0>>),
                    RawLevel(LEVEL_SIZE, RawDate, <<65>>, <<77, 49>>, 0, 0, <<1, 0>>),
                    RawThumbnail(8, <<0, 0>>), RawThumbnail(8, <<0, 0>>))
OutcomeBadThumbnail ==
    CourseFromBytes(RawLevel(LEVEL_SIZE, RawDate, <<65>>, <<77, 49>>, 0, 0, <<1, 0>>),
                    RawLevel(LEVEL_SIZE, RawDate, <<65>>, <<77, 49>>, 0, 0, <<1, 0>>),
                    RawThumbnail(8, <<0, 0>>), RawThumbnail(7, <<0, 0>>))

\* C8: when exactly one of the four buffers is invalid, from_bytes returns an
\* error: it does not panic, and the error is not the one it returns when a
\* different buffer is the invalid one.
C8_CourseFromBytesNamesMember ==
    (course_pc = "bytes_done" /\ Cardinality(InvalidArguments) = 1) =>
        /\ course.tag = "Err"
        /\ "CourseData" \notin InvalidArguments => course # OutcomeBadLevel
        /\ "Thumbnail1" \notin InvalidArguments => course # OutcomeBadThumbnail

(***************************************************************************)
(* Properties of the sound-effect table, the object table and the reserved *)
(* regions of an encoded Level, checked under SpecLevel.                   *)
(***************************************************************************)
\* the i-th 8-byte record of the sound-effect table of a level buffer
SoundEffectBytes(b, i) == Slice(b, 83440 + 8 * (i - 1), 83440 + 8 * i)

\* C11: every 8-byte sound-effect record of a decoded buffer encodes back to
\* the same 8 bytes, and encoding the decoded Level again succeeds and
\* reproduces bytes 0x145F0..0x14F50 of the buffer.
C11_SoundEffectBytesPreserved ==
    /\ (src # NoBuf /\ unpacked.tag = "Ok") =>
          \A i \in 1..300 :
              SoundEffectPack(unpacked.value.sound_effects[i]) = SoundEffectBytes(src, i)
    /\ repacked # NotCalled =>
          /\ relevel = unpacked.value => repacked.tag = "Ok"
          /\ repacked.tag = "Ok" =>
                \A o \in 83440..85839 : ByteAt(repacked.value, o) = ByteAt(src, o)

\* the byte at offset o >= 0x145F0 of an encoding that holds, from 0x145F0 on,
\* nothing but the sound effects of l
SoundEffectRegionByte(l, o) ==
    LET i == ((o - 83440) \div 8) + 1
    IN  IF i <= Len(l.sound_effects)
        THEN SoundEffectPack(l.sound_effects[i])[((o - 83440) % 8) + 1]
        ELSE 0

\* r, the result of encoding l, respects the capacity of the object table
WithinCapacity(l, r) ==
    /\ Len(l.objects) > 2600 => r.tag = "Err"
    /\ r.tag = "Ok" =>
          /\ ByteAt(r.value, 236) * 16777216 + ByteAt(r.value, 237) * 65536
               + ByteAt(r.value, 238) * 256 + ByteAt(r.value, 239) <= 2600
          /\ \A o \in 83440..(r.value.len - 1) :
                ByteAt(r.value, o) = SoundEffectRegionByte(l, o)

\* C12: encoding a Level of more than 2600 objects fails; a successful encode
\* writes a count of at most 2600 at 0xEC and no object bytes at or beyond
\* 0x145F0.
C12_ObjectTableCapacity ==
    /\ (level # NoLevel /\ packed # NotCalled) => WithinCapacity(level, packed)
    /\ (relevel # NoLevel /\ repacked # NotCalled) => WithinCapacity(relevel, repacked)

\* the offsets the layout reserves, or leaves unused, in the encoding of l
Reserved(l, o) ==
    \/ o \in 12..15 \/ o \in 22..39 \/ o = 108 \/ o \in 110..111 \/ o \in 216..235
    \/ o \in (240 + 32 * Len(l.objects))..83439
    \/ o \in 85840..86015

\* r, the result of encoding l, has 0x15000 bytes and zeros at the reserved
\* offsets (nz holds exactly the non-zero bytes of a buffer)
ReservedZero(l, r) ==
    (Len(l.objects) <= 2600 /\ Len(l.sound_effects) = 300 /\ r.tag = "Ok") =>
        /\ r.value.len = 86016
        /\ \A o \in DOMAIN r.value.nz : r.value.nz[o] # 0 /\ ~Reserved(l, o)
        /\ \A o \in {12, 15, 22, 39, 108, 110, 111, 216, 235, 83439, 85840, 86015} :
              Reserved(l, o) => ByteAt(r.value, o) = 0

\* C13: a successful encode of a Level of at most 2600 objects and exactly
\* 300 sound effects has exactly 0x15000 bytes, and its bytes at 0x0C..0x10,
\* 0x16..0x28, 0x6C, 0x6E..0x70, 0xD8..0xEC, in the unused object slots and
\* in the trailing pad are zero.
C13_ReservedRegionsZero ==
    /\ (level # NoLevel /\ packed # NotCalled) => ReservedZero(level, packed)
    /\ (relevel # NoLevel /\ repacked # NotCalled) => ReservedZero(relevel, repacked)

\* a Level of two objects and 300 sound effects, the first and last of them
\* non-zero, has been encoded
C13_Witness ==
    /\ level = BaseLevel(<<11, 0, 0, 0>>, <<67>>, BaseTime, "NewSuperMarioBrosU", "Airship",
                         "Medium", ObjectTable(2), SoundEffectTable(300, <<513, 65280>>))
    /\ packed.tag = "Ok"
    /\ ByteAt(packed.value, 240 + 32) # 0
    /\ ByteAt(packed.value, 85832) # 0
====
